---- MODULE Spec2Model ----
(***************************************************************************)
(* nix-containers: the build / load / tag / push pipeline of main.go,      *)
(* io.go and utils.go.                                                     *)
(*                                                                         *)
(*   Spec       the orchestrator (buildAndPush and everything it calls),   *)
(*              one process per platform task, the daemon and the registry *)
(*              as shared external state.                                  *)
(*   SpecBuild  one call of buildStreamLayeredImage, step by step, with    *)
(*              the builder subprocess and the stderr drain as processes.  *)
(*   SpecLoad   one call of loadStreamLayeredImage, step by step, with the  *)
(*              producer subprocess, the stderr drain and the daemon's     *)
(*              progress stream.                                           *)
(*   SpecIO     one call of either of the two.                             *)
(*   SpecFormat formatPlatformReference applied to a pair of platforms.    *)
(***************************************************************************)
EXTENDS Integers, Sequences, FiniteSets, TLC

VARIABLES
    plats,      \* []*v1.Platform handed to buildAndPush
    push,       \* getPushImage()
    accept,     \* getAcceptFlakeConfig()
    pc,         \* position of the buildAndPush call
    task,       \* per platform task: position and locals
    ctxDone,    \* the errgroup context is cancelled
    gerr,       \* errgroup: first error recorded (errOnce)
    adds,       \* var adds []mutate.IndexAddendum
    daemon,     \* docker daemon: reference name -> image id (0: absent)
    registry,   \* calls issued to the registry, in order
    builds,     \* builder subprocesses started: task and argv
    result,     \* what buildAndPush returned
    bi,         \* one buildStreamLayeredImage call (SpecBuild)
    ld,         \* one loadStreamLayeredImage call (SpecLoad)
    fr          \* formatPlatformReference calls on a pair of platforms (SpecFormat)

vars == <<plats, push, accept, pc, task, ctxDone, gerr, adds, daemon,
          registry, builds, result, bi, ld, fr>>

orchVars == <<plats, push, accept, pc, task, ctxDone, gerr, adds, daemon,
              registry, builds, result>>

----------------------------------------------------------------------------
(* Bounds *)

MaxPlats == 2
MaxOutLen == 3

\* longest progress stream of the daemon, in lines
MaxLines == 3

----------------------------------------------------------------------------
(* Values *)

Linux(arch) == [OS |-> "linux", Architecture |-> arch]

\* the platforms a run may be asked for, in the order they are listed
PlatformOrder == <<Linux("amd64"), Linux("arm64"), Linux("arm32"), Linux("riscv64")>>

Platforms == {PlatformOrder[k] : k \in 1..Len(PlatformOrder)}

CanonicalRef == [registry |-> "ghcr.io", repo |-> <<"x", "app">>, tag |-> "v1"]

NoRef == [registry |-> "", repo |-> <<>>, tag |-> ""]

BuildContext == "."

\* labels the image-stream producer may give the image it emits: the
\* canonical name, a name of its own, or a name that a platform task tags to
ProducerLabels ==
    {CanonicalRef,
     [CanonicalRef EXCEPT !.tag = "nix"],
     [CanonicalRef EXCEPT !.tag = "v1_linux_arm64"]}

NilErr == [chain |-> <<>>, task |-> 0]

Err(msg, i) == [chain |-> <<msg>>, task |-> i]

\* fmt.Errorf("msg: %w", err)
Wrap(msg, err) == [err EXCEPT !.chain = <<msg>> \o @]

IsErr(e) == e.chain # <<>>

----------------------------------------------------------------------------
(* utils.go *)

RECURSIVE Join(_, _)
Join(segs, sep) ==
    IF Len(segs) = 0 THEN ""
    ELSE IF Len(segs) = 1 THEN segs[1]
    ELSE segs[1] \o sep \o Join(Tail(segs), sep)

\* name.Reference.Name(): registry/repository:tag
Name(ref) == ref.registry \o "/" \o Join(ref.repo, "/") \o ":" \o ref.tag

formatArch(s) ==
    CASE s = "amd64" -> "x86_64"
      [] s = "arm64" -> "aarch64"
      [] s = "arm32" -> "armv7l"
      [] OTHER -> s

\* Text that name.NewTag takes apart is a sequence of tokens: the
\* separators ":", "/" and "_" are tokens of their own, every other token is
\* a run of characters without them.  Toks is the text of an OS or
\* Architecture field.
Toks(s) ==
    CASE s = "" -> <<>>
      [] s = "arm/v7" -> <<"arm", "/", "v7">>
      [] s = "x86_64" -> <<"x86", "_", "64">>
      [] s = "linux_x86" -> <<"linux", "_", "x86">>
      [] OTHER -> <<s>>

RECURSIVE Concat(_)
Concat(toks) == IF Len(toks) = 0 THEN "" ELSE toks[1] \o Concat(Tail(toks))

RECURSIVE SlashJoined(_)
SlashJoined(segs) ==
    IF Len(segs) = 0 THEN <<>>
    ELSE IF Len(segs) = 1 THEN <<segs[1]>>
    ELSE <<segs[1], "/">> \o SlashJoined(Tail(segs))

\* ref.Name() as tokens
NameToks(ref) == <<ref.registry, "/">> \o SlashJoined(ref.repo) \o <<":", ref.tag>>

\* faulty variant of PlatformRefText: OS and Architecture change places
PlatformRefTextSwapped(ref, p) ==
    NameToks(ref) \o <<"_">> \o Toks(p.Architecture) \o <<"_">> \o Toks(p.OS)

\* fmt.Sprintf("%s_%s_%s", ref.Name(), p.OS, p.Architecture)
PlatformRefText(ref, p) ==
    NameToks(ref) \o <<"_">> \o Toks(p.OS) \o <<"_">> \o Toks(p.Architecture)

Positions(toks, t) == {k \in 1..Len(toks) : toks[k] = t}

Max(S) == CHOOSE m \in S : \A n \in S : n <= m

Min(S) == CHOOSE m \in S : \A n \in S : m <= n

\* strings.Split(text, "/") of the repository path
RECURSIVE SplitSlash(_, _)
SplitSlash(toks, seg) ==
    IF Len(toks) = 0 THEN <<seg>>
    ELSE IF toks[1] = "/" THEN <<seg>> \o SplitSlash(Tail(toks), "")
    ELSE SplitSlash(Tail(toks), seg \o toks[1])

RegistryHosts == {"ghcr.io"}

\* text that holds characters no repository and no tag may hold (blanks,
\* capitals, line ends)
NotNameText == {"Loaded image: ", "Loaded image ID: ", "\n", " "}

NameText(toks) == \A k \in 1..Len(toks) : toks[k] \notin NotNameText

DefaultRegistry == "index.docker.io"

DefaultTag == "latest"

\* name.NewRepository: the text before the first "/" is the registry when it
\* is a host name; the rest is the repository, in which ":" is not allowed
NewRepository(base) ==
    LET slashes == Positions(base, "/")
        first == IF slashes = {} THEN 0 ELSE Min(slashes)
        host == IF first = 0 THEN "" ELSE Concat(SubSeq(base, 1, first - 1))
        hosted == first > 0 /\ host \in RegistryHosts
        path == IF hosted THEN SubSeq(base, first + 1, Len(base)) ELSE base
    IN [ok |-> Len(path) > 0 /\ Positions(path, ":") = {} /\ NameText(path),
        registry |-> IF hosted THEN host ELSE DefaultRegistry,
        repo |-> SplitSlash(path, "")]

\* name.NewTag: the text after the last ":" is the tag unless it holds a "/"
\* (then the ":" belongs to the repository text and there is no tag)
NewTag(text) ==
    LET colons == Positions(text, ":")
        last == IF colons = {} THEN 0 ELSE Max(colons)
        tail == SubSeq(text, last + 1, Len(text))
        tagged == last > 0 /\ Positions(tail, "/") = {}
        base == IF tagged THEN SubSeq(text, 1, last - 1) ELSE text
        tag == IF tagged THEN Concat(tail) ELSE ""
        r == NewRepository(base)
    IN IF r.ok /\ NameText(tail)
       THEN [ok |-> TRUE,
             ref |-> [registry |-> r.registry, repo |-> r.repo,
                      tag |-> IF tag = "" THEN DefaultTag ELSE tag]]
       ELSE [ok |-> FALSE, ref |-> NoRef]

\* faulty variant of formatPlatformReference: the architecture is left out
formatPlatformReferenceNoArch(ref, p) ==
    NewTag(NameToks(ref) \o <<"_">> \o Toks(p.OS)).ref

\* formatPlatformReference, the *name.Tag it returns (NoRef with an error)
formatPlatformReference(ref, p) == NewTag(PlatformRefText(ref, p)).ref

\* formatPlatformReference, whether it returns an error
formatPlatformReferenceFails(ref, p) == ~NewTag(PlatformRefText(ref, p)).ok

formatNixFlakePackageName(ref) == ref.repo[Len(ref.repo)]

formatNixFlakePackage(buildContext, ref, p) ==
    buildContext \o "#packages." \o formatArch(p.Architecture) \o "-" \o p.OS
        \o "." \o formatNixFlakePackageName(ref)

DaemonNames ==
    {Name(r) : r \in ProducerLabels}
        \cup {Name(CanonicalRef)}
        \cup {Name(formatPlatformReference(CanonicalRef, p)) : p \in Platforms}

----------------------------------------------------------------------------
(* Options: main.go 23-49, io.go 138-154 *)

WithPush(b) == [kind |-> "push", push |-> b, layered |-> ""]

WithStreamLayeredImageOption(opt) == [kind |-> "layered", push |-> FALSE, layered |-> opt]

WithAcceptFlakeConfig == "acceptFlakeConfig"

RECURSIVE ApplyBuildOptions(_, _)
ApplyBuildOptions(o, opts) ==
    IF Len(opts) = 0 THEN o
    ELSE ApplyBuildOptions(
             IF opts[1].kind = "push" THEN [o EXCEPT !.push = opts[1].push]
             ELSE [o EXCEPT !.layered = Append(@, opts[1].layered)],
             Tail(opts))

makeBuildOption(opts) == ApplyBuildOptions([push |-> FALSE, layered |-> <<>>], opts)

makeLayeredImageOptions(lopts) ==
    [acceptFlakeConfig |->
        \E k \in 1..Len(lopts) : lopts[k] = WithAcceptFlakeConfig]

\* the opts the RunE handlers hand to buildAndPush
CommandOpts(pushImage, acceptFlake) ==
    <<WithPush(pushImage)>>
        \o (IF acceptFlake
            THEN <<WithStreamLayeredImageOption(WithAcceptFlakeConfig)>>
            ELSE <<>>)

\* the opts buildAndPushImage and the platform task hand on to
\* buildPlatformImage: both calls end at ref, the variadic opts are left out
PlatformImageOpts(opts) == <<>>

\* argv of the builder, io.go 170-175
BuilderArgs(o, url) ==
    <<"nix", "build">>
        \o (IF o.acceptFlakeConfig THEN <<"--accept-flake-config">> ELSE <<>>)
        \o <<"--json", url>>

----------------------------------------------------------------------------
(* The builder's standard output as JSON tokens, and json.Decoder.Decode   *)
(* into []*streamLayeredImageBuildResult.  "{out}" is an object whose      *)
(* outputs.out is a store path, "{}" an object without it, "x" a byte      *)
(* sequence that is no JSON.                                               *)

Tokens == {"[", "]", ",", "null", "{out}", "{}", "x"}

Elems == {"null", "{out}", "{}"}

OutPath == "/nix/store/image"

RECURSIVE SeqsUpTo(_, _)
SeqsUpTo(S, n) ==
    IF n = 0 THEN {<<>>}
    ELSE LET shorter == SeqsUpTo(S, n - 1)
         IN shorter \cup {Append(s, t) : s \in {u \in shorter : Len(u) = n - 1}, t \in S}

Outputs == SeqsUpTo(Tokens, MaxOutLen)

DecodeErr(atEOF) == [ok |-> FALSE, eof |-> atEOF, result |-> <<>>]

\* the array after its '[': st is "first" (element or ']'), "after" (',' or
\* ']') or "elem" (element)
RECURSIVE DecodeArray(_, _, _, _)
DecodeArray(out, k, st, acc) ==
    IF k > Len(out) THEN DecodeErr(TRUE)
    ELSE LET t == out[k] IN
         IF t = "]" /\ st \in {"first", "after"}
         THEN [ok |-> TRUE, eof |-> FALSE, result |-> acc]
         ELSE IF t = "," /\ st = "after" THEN DecodeArray(out, k + 1, "elem", acc)
         ELSE IF t \in Elems /\ st \in {"first", "elem"}
         THEN DecodeArray(out, k + 1, "after", Append(acc, t))
         ELSE DecodeErr(FALSE)

\* Decode reads the first JSON value of the stream and nothing after it:
\* io.EOF on an empty stream, null sets the slice to nil, an object is a
\* type error.  eof: the outcome is known only at the end of the stream.
Decode(out) ==
    IF Len(out) = 0 THEN DecodeErr(TRUE)
    ELSE IF out[1] = "null" THEN [ok |-> TRUE, eof |-> Len(out) = 1, result |-> <<>>]
    ELSE IF out[1] = "[" THEN DecodeArray(out, 2, "first", <<>>)
    ELSE DecodeErr(FALSE)

\* result[0].Outputs["out"]
OutputPath(elem) == IF elem = "{out}" THEN OutPath ELSE ""

Ret(path, err) == [path |-> path, err |-> err, panic |-> FALSE]

Panic == [path |-> "", err |-> NilErr, panic |-> TRUE]

ParseError(i) == Err("failed to parse nix build output", i)

NoOutputError(i) == Err("no output path found in nix build result", i)

DrainError(i) == Wrap("failed to wait for command", Err("stderr scan failed", i))

ExitError(i) == Wrap("failed to wait for command", Err("exit status 1", i))

\* io.go 220-229, once decode, wg.Wait and cmd.Wait went through
BuildResultOf(res, i) ==
    IF Len(res) = 0 THEN Ret("", NoOutputError(i))
    ELSE IF res[1] = "null" THEN Panic
    ELSE Ret(OutputPath(res[1]), NilErr)

\* io.go 208-229 for a builder that wrote out, whose stderr scan ended with
\* or without an error, and that exited with status exit
BuildReturn(out, drainErr, exit, i) ==
    LET d == Decode(out) IN
    IF ~d.ok THEN Ret("", ParseError(i))
    ELSE IF drainErr THEN Ret("", DrainError(i))
    ELSE IF exit # 0 THEN Ret("", ExitError(i))
    ELSE BuildResultOf(d.result, i)

----------------------------------------------------------------------------
(* buildStreamLayeredImage step by step: io.go 163-230.  The builder       *)
(* (proc) writes its standard output and exits; the drain task scans its   *)
(* standard error to the end, or stops on a scan error.                    *)

\* no loadStreamLayeredImage call is under way
IdleLoad ==
    [pc |-> "idle", err |-> NilErr, failed |-> FALSE, proc |-> "none",
     exit |-> 0, drain |-> "none", scanErr |-> FALSE, gret |-> NilErr,
     stream |-> [lines |-> <<>>, closed |-> FALSE], pos |-> 0,
     read |-> [ref |-> NoRef, err |-> NilErr], readDone |-> FALSE,
     waited |-> FALSE, cmdctx |-> "none", cancelled |-> FALSE,
     ret |-> [ref |-> NoRef, err |-> NilErr]]

\* no formatPlatformReference call is under way
IdleFormat == [pc |-> "idle", ps |-> <<>>, out |-> <<>>]

IdleBuild ==
    [pc |-> "idle", accept |-> FALSE, argv |-> <<>>, written |-> FALSE,
     out |-> <<>>, proc |-> "none", exit |-> 0, drain |-> "none",
     waited |-> FALSE, result |-> <<>>, ret |-> Ret("", NilErr),
     cmdctx |-> "none", cancelled |-> FALSE]

BuildUrl == formatNixFlakePackage(BuildContext, CanonicalRef, PlatformOrder[1])

BuildReturns(r) == bi' = [bi EXCEPT !.pc = "returned", !.ret = r]

\* faulty variant of CommandContext: exec.Command, bound to no context
CommandWithoutContext(ctx) == "none"

\* exec.CommandContext(ctx, ...): the context the command is bound to
\* (io.go 77, 175)
CommandContext(ctx) == ctx

\* os/exec: a started command that is bound to a context is killed once
\* that context is done, whether or not cmd.Wait has been called
KillPending(c) == c.proc = "running" /\ c.cancelled /\ c.cmdctx = "ctx"

\* exit code of a subprocess that was killed by a signal
Killed == -1

\* io.go 168-206: argv, pipes, cmd.Start, the drain task is launched;
\* cmd.Start fails when the context is already done
BuildStart ==
    /\ bi.pc = "call"
    /\ \E ok \in BOOLEAN :
         IF ok /\ ~bi.cancelled
         THEN bi' = [bi EXCEPT
                 !.pc = "decode",
                 !.cmdctx = CommandContext("ctx"),
                 !.argv = BuilderArgs([acceptFlakeConfig |-> bi.accept], BuildUrl),
                 !.proc = "running",
                 !.drain = "running"]
         ELSE BuildReturns(Ret("", Err("failed to run command", 0)))
    /\ UNCHANGED <<orchVars, ld, fr>>

\* the context of the call is cancelled, by the caller or by the failure of
\* a sibling task of the group (main.go 229-232)
BuildCancel ==
    /\ bi.pc # "idle"
    /\ ~bi.cancelled
    /\ bi' = [bi EXCEPT !.cancelled = TRUE]
    /\ UNCHANGED <<orchVars, ld, fr>>

\* the builder is killed because its context is done
BuilderKill ==
    /\ KillPending(bi)
    /\ bi' = [bi EXCEPT !.proc = "exited", !.exit = Killed]
    /\ UNCHANGED <<orchVars, ld, fr>>

\* the builder writes its result to standard output
BuilderWrite ==
    /\ bi.proc = "running"
    /\ ~bi.written
    /\ \E out \in Outputs \ {<<>>} : bi' = [bi EXCEPT !.written = TRUE, !.out = out]
    /\ UNCHANGED <<orchVars, ld, fr>>

\* the builder exits, which closes its standard output and standard error
BuilderExit ==
    /\ bi.proc = "running"
    /\ \E code \in {0, 1} : bi' = [bi EXCEPT !.proc = "exited", !.exit = code]
    /\ UNCHANGED <<orchVars, ld, fr>>

\* io.go 196-205: the scan ends at the end of standard error, or earlier
\* with sc.Err() set
DrainEnd ==
    /\ bi.drain = "running"
    /\ \E scanErr \in BOOLEAN :
         /\ ~scanErr => bi.proc = "exited"
         /\ bi' = [bi EXCEPT !.drain = IF scanErr THEN "err" ELSE "ok"]
    /\ UNCHANGED <<orchVars, ld, fr>>

\* io.go 208-211: dec.Decode(&result); it returns once the first value is
\* complete or wrong, or at the end of the stream
BuildDecode ==
    /\ bi.pc = "decode"
    /\ LET d == Decode(bi.out) IN
         /\ ~d.eof \/ bi.proc = "exited"
         /\ IF d.ok
            THEN bi' = [bi EXCEPT !.pc = "wgwait", !.result = d.result]
            ELSE BuildReturns(Ret("", ParseError(0)))
    /\ UNCHANGED <<orchVars, ld, fr>>

\* faulty variant of DrainReturned: wg.Wait() does not block
DrainReturnedAlways(d) == TRUE

\* wg.Wait() returns once the drain task has returned (io.go 128, 213)
DrainReturned(d) == d \in {"ok", "err", "done"}

\* io.go 213-215: wg.Wait()
BuildDrainWait ==
    /\ bi.pc = "wgwait"
    /\ DrainReturned(bi.drain)
    /\ IF bi.drain = "err"
       THEN BuildReturns(Ret("", DrainError(0)))
       ELSE bi' = [bi EXCEPT !.pc = "cmdwait"]
    /\ UNCHANGED <<orchVars, ld, fr>>

\* io.go 216-229: cmd.Wait(), then the result
BuildCmdWait ==
    /\ bi.pc = "cmdwait"
    /\ bi.proc = "exited"
    /\ LET r == IF bi.exit # 0 THEN Ret("", ExitError(0))
                ELSE BuildResultOf(bi.result, 0)
       IN bi' = [bi EXCEPT !.pc = IF r.panic THEN "panicked" ELSE "returned",
                           !.waited = TRUE,
                           !.ret = r]
    /\ UNCHANGED <<orchVars, ld, fr>>

\* no buildAndPush call is under way
OrchIdle ==
    /\ plats = <<>>
    /\ push = FALSE
    /\ accept = FALSE
    /\ pc = "done"
    /\ task = <<>>
    /\ ctxDone = FALSE
    /\ gerr = NilErr
    /\ adds = <<>>
    /\ daemon = [n \in DaemonNames |-> 0]
    /\ registry = <<>>
    /\ builds = {}
    /\ result = [done |-> FALSE, err |-> NilErr]

InitBuild ==
    /\ OrchIdle
    /\ \E a \in BOOLEAN : bi = [IdleBuild EXCEPT !.pc = "call", !.accept = a]
    /\ ld = IdleLoad
    /\ fr = IdleFormat

NextBuild ==
    \/ BuildStart
    \/ BuildCancel
    \/ BuilderKill
    \/ BuilderWrite
    \/ BuilderExit
    \/ DrainEnd
    \/ BuildDecode
    \/ BuildDrainWait
    \/ BuildCmdWait

SpecBuild == InitBuild /\ [][NextBuild]_vars

\* the step machine returns what BuildReturn computes
BuildReturnAgrees ==
    bi.pc \in {"returned", "panicked"} /\ bi.proc # "none"
        => bi.ret = BuildReturn(bi.out, bi.drain = "err", bi.exit, 0)

----------------------------------------------------------------------------
(* The daemon's progress stream and readImageLoadedRef: io.go 18-70.  A    *)
(* line is one JSON record followed by a newline, or bytes that are no     *)
(* JSON; status and stream are the fields the two record types decode.     *)

LoadedPrefix == "Loaded image: "

LoadingLayer == [json |-> TRUE, status |-> "Loading layer", stream |-> <<>>]

\* {"stream":"Loaded image: <ref>\n"}
LoadedImage(ref) ==
    [json |-> TRUE, status |-> "",
     stream |-> <<LoadedPrefix>> \o NameToks(ref) \o <<"\n">>]

\* {"stream":"<ref>\n"}: a stream record without the prefix
BareStream(ref) ==
    [json |-> TRUE, status |-> "", stream |-> NameToks(ref) \o <<"\n">>]

\* {"stream":"Loaded image ID: sha256:0\n"}: what the daemon reports for an
\* image without a name
LoadedImageId ==
    [json |-> TRUE, status |-> "",
     stream |-> <<"Loaded image ID: ", "sha256", ":", "0", "\n">>]

\* a record with another status and no stream field
OtherStatus == [json |-> TRUE, status |-> "Pulling", stream |-> <<>>]

NotJson == [json |-> FALSE, status |-> "", stream |-> <<>>]

ProgressLines ==
    {LoadingLayer, BareStream(CanonicalRef), LoadedImageId, OtherStatus, NotJson}
        \cup {LoadedImage(ref) : ref \in ProducerLabels}

\* what the daemon sends before the call gives up reading: the lines, and
\* whether the daemon has closed the stream after them
ProgressStreams == [lines : SeqsUpTo(ProgressLines, MaxLines), closed : BOOLEAN]

\* json.Unmarshal([]byte(line), &v): a syntax error for bytes that are no
\* JSON; it never returns io.EOF
Unmarshal(line) ==
    IF line.json THEN [ok |-> TRUE, err |-> ""]
    ELSE [ok |-> FALSE, err |-> "invalid character"]

\* faulty variant of TrimPrefix: the prefix stays
TrimPrefixNever(text, prefix) == text

\* strings.TrimPrefix
TrimPrefix(text, prefix) ==
    IF Len(text) > 0 /\ text[1] = prefix THEN Tail(text) ELSE text

Blank == {"\n", " "}

\* strings.TrimSpace
RECURSIVE TrimSpace(_)
TrimSpace(text) ==
    IF Len(text) = 0 THEN text
    ELSE IF text[1] \in Blank THEN TrimSpace(Tail(text))
    ELSE IF text[Len(text)] \in Blank THEN TrimSpace(SubSeq(text, 1, Len(text) - 1))
    ELSE text

\* name.ParseReference: a tag reference (no digest text occurs here)
ParseReference(text) == NewTag(text)

ReadResult(ref, err, pos) == [done |-> TRUE, ref |-> ref, err |-> err, pos |-> pos]

\* the call is blocked in r.ReadString
ReadBlocked(pos) == [done |-> FALSE, ref |-> NoRef, err |-> NilErr, pos |-> pos]

\* io.go 69
NoLoadedRefError == Err("failed to read loaded ref", 0)

\* io.go 36 with io.EOF from r.ReadString
ReadLineEOF == Wrap("failed to read line", Err("EOF", 0))

\* io.go 36 when the response body is read under a context that is done
ReadLineCancelled == Wrap("failed to read line", Err("context canceled", 0))

\* io.go 43
DecodeProgressError == Wrap("failed to decode image load progress", Err("invalid character", 0))

\* io.go 64: the error of name.ParseReference, returned as it is
ParseReferenceError == Err("could not parse reference", 0)

\* readImageLoadedRef from line k on (io.go 33-69)
RECURSIVE ReadFrom(_, _)
ReadFrom(stream, k) ==
    IF k > Len(stream.lines)
    THEN IF stream.closed THEN ReadResult(NoRef, ReadLineEOF, k - 1)
         ELSE ReadBlocked(k - 1)
    ELSE LET line == stream.lines[k]
             u == Unmarshal(line)
         IN IF ~u.ok
            THEN IF u.err = "EOF" THEN ReadResult(NoRef, NoLoadedRefError, k)
                 ELSE ReadResult(NoRef, DecodeProgressError, k)
            ELSE IF line.status = "Loading layer" THEN ReadFrom(stream, k + 1)
            ELSE LET r == ParseReference(TrimSpace(TrimPrefix(line.stream, LoadedPrefix)))
                 IN IF r.ok THEN ReadResult(r.ref, NilErr, k)
                    ELSE ReadResult(NoRef, ParseReferenceError, k)

readImageLoadedRef(stream) == ReadFrom(stream, 1)

----------------------------------------------------------------------------
(* loadStreamLayeredImage step by step: io.go 72-136.  The producer (proc) *)
(* exits with a status; the drain task scans its standard error, assigns   *)
(* sc.Err() to the variable err of the enclosing function and then tests   *)
(* that variable.  The main flow assigns its calls' errors to the same     *)
(* variable and tests it in a later step.                                  *)

LoadRet(ref, err) == [ref |-> ref, err |-> err]

LoadReturns(r) == ld' = [ld EXCEPT !.pc = "returned", !.ret = r]

\* io.go 77-108: exec.CommandContext, pipes, cmd.Start; the drain task is
\* launched; cmd.Start fails when the context is already done
LoadStart ==
    /\ ld.pc = "call"
    /\ \E ok \in BOOLEAN :
         IF ok /\ ~ld.cancelled
         THEN ld' = [ld EXCEPT !.pc = "client", !.proc = "running", !.drain = "scan",
                               !.cmdctx = CommandContext("ctx")]
         ELSE LoadReturns(LoadRet(NoRef, Wrap("failed to start stream command",
                                               Err("exec", 0))))
    /\ UNCHANGED <<orchVars, bi, fr>>

\* the context of the call is cancelled, by the caller or by the failure of
\* a sibling task of the group (main.go 229-232)
LoadCancel ==
    /\ ld.pc # "idle"
    /\ ~ld.cancelled
    /\ ld' = [ld EXCEPT !.cancelled = TRUE]
    /\ UNCHANGED <<orchVars, bi, fr>>

\* the producer is killed because its context is done
ProducerKill ==
    /\ KillPending(ld)
    /\ ld' = [ld EXCEPT !.proc = "exited", !.exit = Killed]
    /\ UNCHANGED <<orchVars, bi, fr>>

\* the producer exits, which closes its standard output and standard error
ProducerExit ==
    /\ ld.proc = "running"
    /\ \E code \in {0, 1} : ld' = [ld EXCEPT !.proc = "exited", !.exit = code]
    /\ UNCHANGED <<orchVars, bi, fr>>

\* io.go 97-102: the scan ends at the end of standard error, or earlier
\* with sc.Err() set
LoadDrainScan ==
    /\ ld.drain = "scan"
    /\ \E scanErr \in BOOLEAN :
         /\ ~scanErr => ld.proc = "exited"
         /\ ld' = [ld EXCEPT !.drain = "assign", !.scanErr = scanErr]
    /\ UNCHANGED <<orchVars, bi, fr>>

\* io.go 103, the assignment: err = sc.Err()
LoadDrainAssign ==
    /\ ld.drain = "assign"
    /\ ld' = [ld EXCEPT !.drain = "test",
                        !.err = IF ld.scanErr THEN Err("token too long", 0) ELSE NilErr]
    /\ UNCHANGED <<orchVars, bi, fr>>

\* io.go 103-106, the test: err != nil, and the task's return value
LoadDrainTest ==
    /\ ld.drain = "test"
    /\ ld' = [ld EXCEPT !.drain = "done",
                        !.gret = IF IsErr(ld.err) THEN Wrap("stderr scan failed", ld.err)
                                 ELSE NilErr]
    /\ UNCHANGED <<orchVars, bi, fr>>

\* io.go 110: cli, err := client.NewClientWithOpts(client.FromEnv)
LoadClient ==
    /\ ld.pc = "client"
    /\ \E ok \in BOOLEAN :
         ld' = [ld EXCEPT !.pc = "clientTest", !.failed = ~ok,
                          !.err = IF ok THEN NilErr ELSE Err("invalid docker host", 0)]
    /\ UNCHANGED <<orchVars, bi, fr>>

\* one `if err != nil` of the main flow: the call returns msg wrapping err,
\* or goes on; with a nil client or response it panics at its next use
LoadTest(at, msg, next) ==
    /\ ld.pc = at
    /\ IF IsErr(ld.err) THEN LoadReturns(LoadRet(NoRef, Wrap(msg, ld.err)))
       ELSE IF ld.failed /\ at # "readTest" THEN ld' = [ld EXCEPT !.pc = "panicked"]
       ELSE ld' = [ld EXCEPT !.pc = next]
    /\ UNCHANGED <<orchVars, bi, fr>>

\* io.go 111-114
LoadClientTest == LoadTest("clientTest", "create docker client failed", "load")

\* io.go 116: resp, err := cli.ImageLoad(ctx, stream); the request fails
\* when the context is done
ImageLoad ==
    /\ ld.pc = "load"
    /\ \E ok \in BOOLEAN :
         /\ ok => ~ld.cancelled
         /\ ld' = [ld EXCEPT !.pc = "loadTest", !.failed = ~ok,
                             !.err = IF ok THEN NilErr ELSE Err("image load", 0)]
    /\ UNCHANGED <<orchVars, bi, fr>>

\* io.go 117-121
ImageLoadTest == LoadTest("loadTest", "docker image load failed", "read")

\* io.go 123: loadedRef, err := readImageLoadedRef(ctx, r); the body of the
\* response cannot be read once the context is done
LoadRead ==
    /\ ld.pc = "read"
    /\ IF ld.cancelled
       THEN ld' = [ld EXCEPT !.pc = "readTest", !.readDone = TRUE,
                             !.read = [ref |-> NoRef, err |-> ReadLineCancelled],
                             !.failed = TRUE, !.err = ReadLineCancelled]
       ELSE \E stream \in ProgressStreams :
              LET r == readImageLoadedRef(stream)
              IN /\ r.done
                 /\ ld' = [ld EXCEPT !.pc = "readTest", !.readDone = TRUE,
                                     !.stream = stream, !.pos = r.pos,
                                     !.read = [ref |-> r.ref, err |-> r.err],
                                     !.failed = IsErr(r.err), !.err = r.err]
    /\ UNCHANGED <<orchVars, bi, fr>>

\* io.go 124-126
LoadReadTest == LoadTest("readTest", "failed to read loaded ref", "wgwait")

\* io.go 128-130: err = wg.Wait()
LoadDrainWait ==
    /\ ld.pc = "wgwait"
    /\ DrainReturned(ld.drain)
    /\ IF IsErr(ld.gret)
       THEN ld' = [ld EXCEPT !.pc = "returned", !.err = ld.gret,
                     !.ret = LoadRet(NoRef, Wrap("failed to wait for stream command", ld.gret))]
       ELSE ld' = [ld EXCEPT !.pc = "cmdwait", !.err = NilErr]
    /\ UNCHANGED <<orchVars, bi, fr>>

\* io.go 131-135: err = cmd.Wait(), then the loaded reference
LoadCmdWait ==
    /\ ld.pc = "cmdwait"
    /\ ld.proc = "exited"
    /\ ld' = [ld EXCEPT
                !.pc = "returned",
                !.waited = TRUE,
                !.ret = IF ld.exit # 0
                        THEN LoadRet(NoRef, Wrap("failed to wait for command",
                                                 Err("exit status 1", 0)))
                        ELSE LoadRet(ld.read.ref, NilErr)]
    /\ UNCHANGED <<orchVars, bi, fr>>

InitLoad ==
    /\ OrchIdle
    /\ bi = IdleBuild
    /\ ld = [IdleLoad EXCEPT !.pc = "call"]
    /\ fr = IdleFormat

NextLoad ==
    \/ LoadStart
    \/ LoadCancel
    \/ ProducerKill
    \/ ProducerExit
    \/ LoadDrainScan
    \/ LoadDrainAssign
    \/ LoadDrainTest
    \/ LoadClient
    \/ LoadClientTest
    \/ ImageLoad
    \/ ImageLoadTest
    \/ LoadRead
    \/ LoadReadTest
    \/ LoadDrainWait
    \/ LoadCmdWait

SpecLoad == InitLoad /\ [][NextLoad]_vars

\* one call of either function
InitIO ==
    /\ OrchIdle
    /\ fr = IdleFormat
    /\ \/ /\ \E a \in BOOLEAN : bi = [IdleBuild EXCEPT !.pc = "call", !.accept = a]
          /\ ld = IdleLoad
       \/ /\ bi = IdleBuild
          /\ ld = [IdleLoad EXCEPT !.pc = "call"]

NextIO == NextBuild \/ NextLoad

SpecIO == InitIO /\ [][NextIO]_vars

----------------------------------------------------------------------------
(* formatPlatformReference as a function of the platform: utils.go 24-30.  *)
(* The canonical reference is fixed; the platforms are what parsePlatform  *)
(* can hand over: any text before the first "/" as OS, any text after it   *)
(* as Architecture.                                                        *)

FormatPlatforms ==
    [OS : {"linux", "linux_x86", ""},
     Architecture : {"amd64", "x86_64", "64", "arm/v7"}]

\* the two results of formatPlatformReference: (*name.Tag, error)
FormatResult(ref, p) ==
    [ok |-> ~formatPlatformReferenceFails(ref, p),
     ref |-> formatPlatformReference(ref, p)]

\* one call for the next platform of the pair
FormatCall ==
    /\ fr.pc = "call"
    /\ LET k == Len(fr.out) + 1
       IN fr' = [fr EXCEPT !.out = Append(@, FormatResult(CanonicalRef, fr.ps[k])),
                           !.pc = IF k = Len(fr.ps) THEN "returned" ELSE "call"]
    /\ UNCHANGED <<orchVars, bi, ld>>

InitFormat ==
    /\ OrchIdle
    /\ bi = IdleBuild
    /\ ld = IdleLoad
    /\ \E p, q \in FormatPlatforms : fr = [pc |-> "call", ps |-> <<p, q>>, out |-> <<>>]

NextFormat == FormatCall

SpecFormat == InitFormat /\ [][NextFormat]_vars

----------------------------------------------------------------------------
(* The orchestrator: main.go 179-319 *)

\* at: the step a failed task returned from
IdleTask ==
    [pc |-> "idle", at |-> "", path |-> "", loadedRef |-> NoRef, img |-> 0,
     snap |-> <<>>, err |-> NilErr]

NotReturned == [done |-> FALSE, err |-> NilErr]

Returned(err) == [done |-> TRUE, err |-> err]

\* getPlatforms(): one to MaxPlats platforms, and a list naming one twice
PlatformLists ==
    {SubSeq(PlatformOrder, 1, n) : n \in 1..MaxPlats}
        \cup {<<PlatformOrder[1], PlatformOrder[1]>>}

\* builder outputs the orchestrator is run against
BuilderOutputs ==
    {<<>>, <<"[", "]">>, <<"[", "{out}", "]">>, <<"[", "{}", "]">>,
     <<"[", "null", "]">>}

Tasks == 1..Len(plats)

\* faulty variant of Single: every run takes the multi-platform path
SingleNever == FALSE

\* buildAndPush: len(plats) == 1
Single == Len(plats) = 1

UnsupportedError ==
    Err("multiplatform image build is only supported when pushing to remote registry", 0)

Cancelled(i) == Err("context canceled", i)

\* the reference a task tags, loads from the daemon and pushes
TargetRef(i) ==
    IF Single THEN CanonicalRef ELSE formatPlatformReference(CanonicalRef, plats[i])

\* faulty variant of FirstError: the group records no error
FirstErrorDropped(g, err) == g

\* errgroup.Group: errOnce keeps the first error
FirstError(g, err) == IF IsErr(g) THEN g ELSE err

\* faulty variant of GroupWait: Wait reports success whatever the tasks returned
GroupWaitIgnoring(g) == NilErr

\* wg.Wait() of the platform group
GroupWait(g) == g

\* faulty variant of MultiplatformRefused: the push check is gone
MultiplatformNeverRefused(o) == FALSE

\* main.go 223: if !o.push
MultiplatformRefused(o) == ~o.push

\* main.go 277: if loadedRef != ref
NeedsTag(loadedRef, ref) == loadedRef # ref

\* faulty variant of PushRequested: the image is pushed whatever o.push says
PushAlways(o) == TRUE

\* main.go 287: if o.push
PushRequested(o) == o.push

Opts == CommandOpts(push, accept)

\* a step of task i that went through
Goto(i, next) ==
    /\ task' = [task EXCEPT ![i] = next]
    /\ UNCHANGED <<pc, ctxDone, gerr, result>>

\* task i returns err: buildAndPushImage returns it to the caller; in the
\* group it is recorded if it is the first, and the context is cancelled
Fail(i, err) ==
    /\ task' = [task EXCEPT ![i].pc = "failed", ![i].at = task[i].pc, ![i].err = err]
    /\ IF Single
       THEN /\ pc' = "done"
            /\ result' = Returned(err)
            /\ UNCHANGED <<ctxDone, gerr>>
       ELSE /\ gerr' = FirstError(gerr, err)
            /\ ctxDone' = TRUE
            /\ UNCHANGED <<pc, result>>

\* buildAndPushImage returns err (nil on success)
Finish(i, err) ==
    /\ task' = [task EXCEPT ![i].pc = "done", ![i].err = err]
    /\ pc' = "done"
    /\ result' = Returned(err)
    /\ UNCHANGED <<ctxDone, gerr>>

Init ==
    /\ plats \in PlatformLists
    /\ push \in BOOLEAN
    /\ accept \in BOOLEAN
    /\ pc = "start"
    /\ task = [i \in 1..Len(plats) |-> IdleTask]
    /\ ctxDone = FALSE
    /\ gerr = NilErr
    /\ adds = <<>>
    /\ daemon = [n \in DaemonNames |-> 0]
    /\ registry = <<>>
    /\ builds = {}
    /\ result = NotReturned
    /\ bi = IdleBuild
    /\ ld = IdleLoad
    /\ fr = IdleFormat

\* buildAndPush, and buildAndPushMultiplatformImage up to the launch of the
\* platform tasks (main.go 294-319, 215-257)
Dispatch ==
    /\ pc = "start"
    /\ IF Single
       THEN /\ pc' = "single"
            /\ task' = [i \in Tasks |-> [IdleTask EXCEPT !.pc = "build"]]
            /\ UNCHANGED result
       ELSE IF MultiplatformRefused(makeBuildOption(Opts))
       THEN /\ pc' = "done"
            /\ result' = Returned(UnsupportedError)
            /\ UNCHANGED task
       ELSE /\ pc' = "multi"
            /\ task' = [i \in Tasks |-> [IdleTask EXCEPT !.pc = "build"]]
            /\ UNCHANGED result
    /\ UNCHANGED <<plats, push, accept, ctxDone, gerr, adds, daemon, registry,
                   builds, bi, ld, fr>>

Running(i) == pc \in {"single", "multi"} /\ i \in Tasks

BuildStepErr(e) ==
    LET inner == Wrap("build stream layered image failed", e)
    IN IF Single THEN Wrap("build flake image failed", inner) ELSE inner

LoadStepErr(e) == IF Single THEN Wrap("build flake image failed", e) ELSE e

\* buildPlatformImage, first half: buildStreamLayeredImage (main.go 202-211).
\* exec.CommandContext does not start a command whose context is done.
PlatformBuild(i) ==
    /\ Running(i)
    /\ task[i].pc = "build"
    /\ UNCHANGED <<plats, push, accept, adds, daemon, registry, bi, ld, fr>>
    /\ IF ctxDone
       THEN /\ Fail(i, BuildStepErr(Wrap("failed to run command", Cancelled(i))))
            /\ UNCHANGED builds
       ELSE LET o == makeBuildOption(PlatformImageOpts(Opts))
                url == formatNixFlakePackage(BuildContext, CanonicalRef, plats[i])
                argv == BuilderArgs(makeLayeredImageOptions(o.layered), url)
            IN /\ builds' = builds \cup {[task |-> i, argv |-> argv]}
               /\ \E out \in BuilderOutputs, drainErr \in BOOLEAN, exit \in {0, 1} :
                    LET r == BuildReturn(out, drainErr, exit, i) IN
                    IF r.panic
                    THEN /\ pc' = "panic"
                         /\ UNCHANGED <<task, ctxDone, gerr, result>>
                    ELSE IF IsErr(r.err)
                    THEN Fail(i, BuildStepErr(r.err))
                    ELSE Goto(i, [task[i] EXCEPT !.pc = "load", !.path = r.path])

\* buildPlatformImage, second half: loadStreamLayeredImage (main.go 212).
\* The producer labels the image; the call may fail before the daemon took
\* the image, or after it (drain or exit status of the producer).
PlatformLoad(i) ==
    /\ Running(i)
    /\ task[i].pc = "load"
    /\ UNCHANGED <<plats, push, accept, adds, registry, builds, bi, ld, fr>>
    /\ IF task[i].path = ""
       THEN /\ Fail(i, LoadStepErr(Err("failed to start stream command", i)))
            /\ UNCHANGED daemon
       ELSE IF ctxDone
       THEN /\ Fail(i, LoadStepErr(Wrap("failed to start stream command", Cancelled(i))))
            /\ UNCHANGED daemon
       ELSE \E label \in ProducerLabels, how \in {"ok", "before", "after"} :
              /\ daemon' = IF how = "before" THEN daemon
                           ELSE [daemon EXCEPT ![Name(label)] = i]
              /\ IF how = "before"
                 THEN Fail(i, LoadStepErr(Err("docker image load failed", i)))
                 ELSE IF how = "after"
                 THEN Fail(i, LoadStepErr(Err("failed to wait for command", i)))
                 ELSE Goto(i, [task[i] EXCEPT
                                 !.loadedRef = label,
                                 !.pc = IF Single /\ ~NeedsTag(label, CanonicalRef)
                                        THEN "image" ELSE "tag"])

\* formatPlatformReference (main.go 236-239), then tagImage, first call:
\* cli.ImageTag(ctx, loadedRef, ref) (main.go 180-187)
ImageTag(i) ==
    /\ Running(i)
    /\ task[i].pc = "tag"
    /\ UNCHANGED <<plats, push, accept, adds, registry, builds, bi, ld, fr>>
    /\ LET src == Name(task[i].loadedRef)
           dst == Name(TargetRef(i))
       IN IF ~Single /\ formatPlatformReferenceFails(CanonicalRef, plats[i])
          THEN /\ Fail(i, Err("format platform reference failed", i))
               /\ UNCHANGED daemon
          ELSE IF ctxDone
          THEN /\ Fail(i, Wrap("tag image failed", Wrap("tag image failed", Cancelled(i))))
               /\ UNCHANGED daemon
          ELSE \E ok \in BOOLEAN :
                 IF ok /\ daemon[src] # 0
                 THEN /\ daemon' = [daemon EXCEPT ![dst] = daemon[src]]
                      /\ Goto(i, [task[i] EXCEPT !.pc = "untag"])
                 ELSE /\ Fail(i, Wrap("tag image failed", Err("tag image failed", i)))
                      /\ UNCHANGED daemon

\* tagImage, second call: cli.ImageRemove(ctx, loadedRef) (main.go 188-192)
ImageRemove(i) ==
    /\ Running(i)
    /\ task[i].pc = "untag"
    /\ UNCHANGED <<plats, push, accept, adds, registry, builds, bi, ld, fr>>
    /\ LET src == Name(task[i].loadedRef)
       IN IF ctxDone
          THEN /\ Fail(i, Wrap("tag image failed", Wrap("remove image failed", Cancelled(i))))
               /\ UNCHANGED daemon
          ELSE \E ok \in BOOLEAN :
                 IF ok /\ daemon[src] # 0
                 THEN /\ daemon' = [daemon EXCEPT ![src] = 0]
                      /\ Goto(i, [task[i] EXCEPT !.pc = "image"])
                 ELSE /\ Fail(i, Wrap("tag image failed", Err("remove image failed", i)))
                      /\ UNCHANGED daemon

ImageStepErr(e) == IF Single THEN e ELSE Wrap("load image failed", e)

\* daemon.Image(ref): no context is handed to it (main.go 243, 283)
DaemonImage(i) ==
    /\ Running(i)
    /\ task[i].pc = "image"
    /\ UNCHANGED <<plats, push, accept, adds, daemon, registry, builds, bi, ld, fr>>
    /\ LET dst == Name(TargetRef(i))
       IN \E ok \in BOOLEAN :
            IF ok /\ daemon[dst] # 0
            THEN IF Single /\ ~PushRequested(makeBuildOption(Opts))
                 THEN Finish(i, NilErr)
                 ELSE Goto(i, [task[i] EXCEPT !.pc = "push", !.img = daemon[dst]])
            ELSE Fail(i, ImageStepErr(Err("daemon image failed", i)))

WriteOp(ref, img, ok) ==
    [op |-> "Write", ref |-> Name(ref), img |-> img, adds |-> <<>>, ok |-> ok]

IndexOp(ref, as, ok) ==
    [op |-> "WriteIndex", ref |-> Name(ref), img |-> 0, adds |-> as, ok |-> ok]

\* remote.Write(ref, img, o.remote...): o.remote carries the keychain only,
\* no context (main.go 248, 289)
RemoteWrite(i) ==
    /\ Running(i)
    /\ task[i].pc = "push"
    /\ UNCHANGED <<plats, push, accept, adds, daemon, builds, bi, ld, fr>>
    /\ \E ok \in BOOLEAN :
         /\ registry' = Append(registry, WriteOp(TargetRef(i), task[i].img, ok))
         /\ IF Single
            THEN IF ok THEN Finish(i, NilErr)
                 ELSE Fail(i, Err("remote write failed", i))
            ELSE IF ok THEN Goto(i, [task[i] EXCEPT !.pc = "append"])
                 ELSE Fail(i, Wrap("push image failed", Err("remote write failed", i)))

Addendum(i) == [Add |-> task[i].img, Platform |-> plats[i]]

\* adds = append(adds, ...) (main.go 251-254), no lock held: the read of the
\* slice ...
AppendRead(i) ==
    /\ Running(i)
    /\ task[i].pc = "append"
    /\ Goto(i, [task[i] EXCEPT !.pc = "store", !.snap = adds])
    /\ UNCHANGED <<plats, push, accept, adds, daemon, registry, builds, bi, ld, fr>>

\* ... and the write of the grown slice, then return nil
AppendStore(i) ==
    /\ Running(i)
    /\ task[i].pc = "store"
    /\ adds' = Append(task[i].snap, Addendum(i))
    /\ Goto(i, [task[i] EXCEPT !.pc = "done", !.snap = <<>>])
    /\ UNCHANGED <<plats, push, accept, daemon, registry, builds, bi, ld, fr>>

\* faulty variant of AllReturned: the wait ends with the first failure
AllReturnedOrFailed ==
    \/ \A i \in Tasks : task[i].pc \in {"done", "failed"}
    \/ IsErr(gerr)

\* wg.Wait() blocks until every goroutine of the group has returned
AllReturned == \A i \in Tasks : task[i].pc \in {"done", "failed"}

\* wg.Wait() and what follows it (main.go 258-262)
WaitAndWriteIndex ==
    /\ pc = "multi"
    /\ AllReturned
    /\ pc' = "done"
    /\ UNCHANGED <<plats, push, accept, task, ctxDone, gerr, adds, daemon, builds, bi, ld, fr>>
    /\ IF IsErr(GroupWait(gerr))
       THEN /\ result' = Returned(Wrap("push images failed", GroupWait(gerr)))
            /\ UNCHANGED registry
       ELSE \E ok \in BOOLEAN :
              /\ registry' = Append(registry, IndexOp(CanonicalRef, adds, ok))
              /\ result' = Returned(IF ok THEN NilErr ELSE Err("remote write index failed", 0))

PlatformTask(i) ==
    \/ PlatformBuild(i)
    \/ PlatformLoad(i)
    \/ ImageTag(i)
    \/ ImageRemove(i)
    \/ DaemonImage(i)
    \/ RemoteWrite(i)
    \/ AppendRead(i)
    \/ AppendStore(i)

Next ==
    \/ Dispatch
    \/ \E i \in 1..MaxPlats : PlatformTask(i)
    \/ WaitAndWriteIndex

Spec == Init /\ [][Next]_vars

----------------------------------------------------------------------------
(* Properties of the orchestrator (Spec) *)

Range(seq) == {seq[k] : k \in 1..Len(seq)}

Distinct(seq) == \A a, b \in 1..Len(seq) : a # b => seq[a] # seq[b]

HasIndexWrite == \E k \in 1..Len(registry) : registry[k].op = "WriteIndex"

DaemonEmpty == \A n \in DaemonNames : daemon[n] = 0

\* C1: with two or more platforms and push disabled, buildAndPush returns
\* the unsupported-operation error, and up to that return no builder was
\* started, no daemon call changed the daemon and nothing was written to the
\* registry.
C1_MultiWithoutPushRefused ==
    (Len(plats) >= 2 /\ ~push) =>
        /\ pc \in {"start", "done"}
        /\ pc = "done" => result = Returned(UnsupportedError)
        /\ builds = {}
        /\ registry = <<>>
        /\ DaemonEmpty
        /\ \A i \in Tasks : task[i].pc = "idle"

C1_Witness == Len(plats) >= 2 /\ ~push /\ pc = "done" /\ result.done

\* C2: whenever the index has been written to the registry, it was written
\* under the canonical reference, every platform task has returned nil, and
\* the calls that precede it are exactly one successful image write per
\* requested platform, under that platform's reference.
C2_IndexAfterEveryPush ==
    \A k \in 1..Len(registry) :
        registry[k].op = "WriteIndex" =>
            /\ registry[k].ref = Name(CanonicalRef)
            /\ k - 1 = Len(plats)
            /\ \A j \in 1..(k - 1) : registry[j].op = "Write" /\ registry[j].ok
            /\ \A i \in Tasks :
                 /\ task[i].pc = "done"
                 /\ \E j \in 1..(k - 1) :
                      registry[j] = WriteOp(TargetRef(i), task[i].img, TRUE)

C2_Witness == Len(plats) >= 2 /\ HasIndexWrite

\* C3: the addenda of an index that was written successfully for N distinct
\* requested platforms are N entries, one per requested platform, whatever
\* the interleaving of the platform tasks.
C3_AddendaComplete ==
    \A k \in 1..Len(registry) :
        (registry[k].op = "WriteIndex" /\ registry[k].ok /\ Distinct(plats)) =>
            LET as == registry[k].adds IN
            /\ Len(as) = Len(plats)
            /\ {as[j].Platform : j \in 1..Len(as)} = Range(plats)
            /\ \A a, b \in 1..Len(as) : a # b => as[a].Platform # as[b].Platform

\* C4: in a two-platform run in which task A has pushed its image and task B
\* has failed, the registry has seen image writes only (no index, no
\* removal), A's write is still there, and the run returns B's error.
C4_FailureAfterPush ==
    Len(plats) = 2 =>
        \A a, b \in Tasks :
            (a # b /\ task[a].pc \in {"append", "store", "done"} /\ task[b].pc = "failed") =>
                /\ \A k \in 1..Len(registry) : registry[k].op = "Write"
                /\ \E k \in 1..Len(registry) :
                     registry[k] = WriteOp(TargetRef(a), task[a].img, TRUE)
                /\ pc = "done" => result = Returned(Wrap("push images failed", task[b].err))

\* A's write went through, then B's write failed
C4_Witness ==
    /\ Len(plats) = 2
    /\ pc = "done"
    /\ Len(registry) = 2
    /\ registry[1].ok
    /\ ~registry[2].ok
    /\ \E a, b \in Tasks : task[a].pc = "done" /\ task[b].pc = "failed" /\ task[b].at = "push"

\* C5: a run for exactly one platform writes no index, collects no addenda,
\* leaves no platform-suffixed reference of its platform in the daemon, and tags only when
\* the loaded reference differs from the canonical one.
C5_SingleNoIndexNoSuffix ==
    Len(plats) = 1 =>
        /\ ~HasIndexWrite
        /\ adds = <<>>
        /\ \A i \in 1..Len(plats) :
             daemon[Name(formatPlatformReference(CanonicalRef, plats[i]))] = 0
        /\ \A i \in 1..Len(plats) :
             task[i].pc \in {"tag", "untag"} => task[i].loadedRef # CanonicalRef

\* the loaded image was renamed to the canonical reference
C5_Witness ==
    /\ Len(plats) = 1
    /\ pc = "done"
    /\ task[1].pc = "done"
    /\ task[1].loadedRef # CanonicalRef
    /\ daemon[Name(CanonicalRef)] # 0
    /\ daemon[Name(task[1].loadedRef)] = 0

HasAcceptFlag(argv) == \E k \in 1..Len(argv) : argv[k] = "--accept-flake-config"

\* C6: every builder started by a run carries --accept-flake-config exactly
\* when the run's accept-flake-config option is enabled.
C6_AcceptFlagCarried == \A b \in builds : HasAcceptFlag(b.argv) <=> accept

\* build, load and rename of the single-platform task went through
SingleRenamed == task[1].pc = "done" \/ (task[1].pc = "failed" /\ task[1].at \in {"image", "push"})

\* ... and so did daemon.Image
SingleImaged == task[1].pc = "done" \/ (task[1].pc = "failed" /\ task[1].at = "push")

OneCanonicalWrite ==
    /\ Len(registry) = 1
    /\ registry[1].op = "Write"
    /\ registry[1].ref = Name(CanonicalRef)

\* C7 as claimed: a finished single-platform run has issued exactly one
\* image write, under the canonical reference, if and only if push was
\* requested and build, load and rename succeeded; otherwise none.
C7_WriteIffRenamed ==
    (Len(plats) = 1 /\ pc = "done") =>
        /\ OneCanonicalWrite <=> (push /\ SingleRenamed)
        /\ ~OneCanonicalWrite => registry = <<>>
        /\ ~push => registry = <<>>

\* C7 as amended: ... if and only if push was requested and build, load,
\* rename and the daemon.Image lookup of the canonical reference succeeded.
C7_WriteIffImaged ==
    (Len(plats) = 1 /\ pc = "done") =>
        /\ OneCanonicalWrite <=> (push /\ SingleImaged)
        /\ ~OneCanonicalWrite => registry = <<>>
        /\ ~push => registry = <<>>

C7_Witness ==
    /\ Len(plats) = 1
    /\ pc = "done"
    /\ push
    /\ OneCanonicalWrite
    /\ registry[1].ok
    /\ task[1].loadedRef # CanonicalRef

\* C8: once a platform task of a run for distinct platforms has failed, no
\* image write is issued to the registry any more, and the error the run
\* returns is the first one.
C8_FailFast ==
    [][(~Single /\ Distinct(plats) /\ IsErr(gerr)) =>
          /\ registry' = registry
          /\ (pc = "multi" /\ pc' = "done") => result' = Returned(Wrap("push images failed", gerr))]_vars

----------------------------------------------------------------------------
(* Properties of the Build Invoker (SpecBuild) *)

BuildOver == bi.pc \in {"returned", "panicked"} /\ bi.proc # "none"

\* position of the ']' that closes the array opened before position k
RECURSIVE ArrayEnd(_, _, _)
ArrayEnd(out, k, st) ==
    IF k > Len(out) THEN 0
    ELSE IF out[k] = "]" /\ st \in {"first", "after"} THEN k
    ELSE IF out[k] = "," /\ st = "after" THEN ArrayEnd(out, k + 1, "elem")
    ELSE IF out[k] \in Elems /\ st \in {"first", "elem"} THEN ArrayEnd(out, k + 1, "after")
    ELSE 0

\* the whole output is one JSON array
WellFormedArray(out) ==
    Len(out) >= 2 /\ out[1] = "[" /\ ArrayEnd(out, 2, "first") = Len(out)

\* C9: a builder that succeeded and wrote [] makes the call return the
\* no-output error; output that is not a JSON array makes it return the
\* parse error (the stderr scan not having failed); the two errors differ.
C9_EmptyVersusMalformed ==
    BuildOver =>
        /\ (bi.out = <<"[", "]">> /\ bi.drain = "ok" /\ bi.proc = "exited" /\ bi.exit = 0)
              => (~bi.ret.panic /\ bi.ret.err = NoOutputError(0))
        /\ (~WellFormedArray(bi.out) /\ bi.drain # "err")
              => (~bi.ret.panic /\ bi.ret.err = ParseError(0))
        /\ NoOutputError(0) # ParseError(0)

\* C10: when the call has returned the builder has exited, and if it exited
\* with a non-zero status the call returned the error that wraps the exit
\* error.
C10_WaitsAndReportsExit ==
    BuildOver =>
        /\ bi.proc = "exited"
        /\ bi.exit # 0 => bi.ret.err = ExitError(0)

\* C14: in a run for several distinct platforms, every image written to the
\* registry under a task's platform-suffixed reference, and every image a
\* task holds for its push, is the image that task's own load put into the
\* daemon.
C14_OwnImagePushed ==
    (~Single /\ Distinct(plats)) =>
        /\ \A i \in Tasks : task[i].pc = "push" => task[i].img = i
        /\ \A k \in 1..Len(registry), i \in Tasks :
             (registry[k].op = "Write" /\ registry[k].ref = Name(TargetRef(i)))
                 => registry[k].img = i

\* C15: in a run for several distinct platforms, a task is at its tag or
\* remove step only when its loaded reference differs from its
\* platform-suffixed reference, and once the tag step is over the daemon holds
\* an image under the platform-suffixed reference.
C15_TagOnlyWhenDifferent ==
    (~Single /\ Distinct(plats)) =>
        \A i \in Tasks :
            /\ task[i].pc \in {"tag", "untag"} => task[i].loadedRef # TargetRef(i)
            /\ task[i].pc = "image" => daemon[Name(TargetRef(i))] # 0

----------------------------------------------------------------------------
(* Properties of formatPlatformReference (SpecFormat) *)

HasUnderscore(s) == Positions(Toks(s), "_") # {}

SuffixedTag(p) == CanonicalRef.tag \o "_" \o p.OS \o "_" \o p.Architecture

\* C13: every reference formatPlatformReference returns has the registry
\* and repository of the canonical reference and the canonical tag followed
\* by "_", the OS, "_" and the Architecture; equal platforms give equal
\* results; linux/amd64 gives ghcr.io/x/app:v1_linux_amd64.
C13_SuffixAppended ==
    /\ \A k \in 1..Len(fr.out) :
         /\ fr.out[k].ok =>
              fr.out[k].ref = [CanonicalRef EXCEPT !.tag = SuffixedTag(fr.ps[k])]
         /\ fr.ps[k] = Linux("amd64") =>
              /\ fr.out[k].ok
              /\ Name(fr.out[k].ref) = "ghcr.io/x/app:v1_linux_amd64"
    /\ (Len(fr.out) = 2 /\ fr.ps[1] = fr.ps[2]) => fr.out[1] = fr.out[2]

\* linux/amd64 was formatted, twice
C13_Witness ==
    /\ fr.pc = "returned"
    /\ fr.ps = <<Linux("amd64"), Linux("amd64")>>
    /\ Name(fr.out[2].ref) = "ghcr.io/x/app:v1_linux_amd64"

\* C18 as stated: two different platforms that both format never get the
\* same platform-suffixed reference.
C18_Injective ==
    (Len(fr.out) = 2 /\ fr.ps[1] # fr.ps[2] /\ fr.out[1].ok /\ fr.out[2].ok)
        => fr.out[1].ref # fr.out[2].ref

\* C18, amended: two different platforms whose OS holds no underscore and
\* that both format never get the same platform-suffixed reference.
C18_InjectiveWithoutUnderscore ==
    (/\ Len(fr.out) = 2
     /\ fr.ps[1] # fr.ps[2]
     /\ fr.out[1].ok /\ fr.out[2].ok
     /\ ~HasUnderscore(fr.ps[1].OS) /\ ~HasUnderscore(fr.ps[2].OS))
        => fr.out[1].ref # fr.out[2].ref

\* two platforms of the same OS were formatted, one with an underscore in
\* its Architecture
C18_Witness ==
    /\ fr.pc = "returned"
    /\ fr.ps = <<Linux("amd64"), Linux("x86_64")>>
    /\ fr.out[1].ok /\ fr.out[2].ok
    /\ fr.out[1].ref # fr.out[2].ref

----------------------------------------------------------------------------
(* Properties of buildStreamLayeredImage, continued (SpecBuild) *)

Carries(e, msg) == \E k \in 1..Len(e.chain) : e.chain[k] = msg

\* C19: when the builder's result was decoded, the drain failed and the
\* builder exited with a non-zero status, the error the call returned
\* carries both the drain failure and the exit failure.
C19_DrainAndExitJoined ==
    (/\ BuildOver
     /\ WellFormedArray(bi.out) /\ Decode(bi.out).ok
     /\ bi.drain = "err"
     /\ bi.proc = "exited" /\ bi.exit # 0)
        => /\ Carries(bi.ret.err, "stderr scan failed")
           /\ Carries(bi.ret.err, "exit status 1")

----------------------------------------------------------------------------
(* Properties of readImageLoadedRef and loadStreamLayeredImage (SpecLoad, SpecIO) *)

\* readImageLoadedRef has returned
ReadOver == ld.readDone

LoadedRecords == {LoadedImage(ref) : ref \in ProducerLabels}

\* C11: when the progress stream is some "Loading layer" records followed by
\* a record "Loaded image: <ref>", readImageLoadedRef returns <ref> without
\* an error and has read exactly up to that record, whatever follows it and
\* whether or not the stream has ended.
C11_LoadedRefReturned ==
    ReadOver =>
        \A k \in 1..Len(ld.stream.lines), ref \in ProducerLabels :
            (/\ \A j \in 1..(k - 1) : ld.stream.lines[j] = LoadingLayer
             /\ ld.stream.lines[k] = LoadedImage(ref))
                => /\ ld.read = [ref |-> ref, err |-> NilErr]
                   /\ ld.pos = k

\* a layer record, the result record and a further line on a stream that
\* is still open
C11_Witness ==
    /\ ld.pc = "readTest"
    /\ ld.stream = [lines |-> <<LoadingLayer, LoadedImage(CanonicalRef), LoadingLayer>>,
                    closed |-> FALSE]
    /\ ld.read.ref = CanonicalRef
    /\ ld.pos = 2

\* C12: when the progress stream ends after nothing but "Loading layer"
\* records, readImageLoadedRef returns the error "failed to read loaded ref".
C12_EndOfStreamIsNoLoadedRef ==
    (/\ ReadOver
     /\ ld.stream.closed
     /\ \A k \in 1..Len(ld.stream.lines) : ld.stream.lines[k] = LoadingLayer)
        => ld.read.err = NoLoadedRefError

\* C16: when the call returns the reference that a "Loaded image: <ref>"
\* record gave, the drain task and the producer are over, the scan of
\* standard error did not fail and the producer exited with status 0.
C16_LateFailuresSurface ==
    (/\ ld.pc = "returned"
     /\ ReadOver
     /\ ld.pos > 0
     /\ ld.stream.lines[ld.pos] \in LoadedRecords
     /\ ld.ret.ref # NoRef)
        => /\ ld.drain = "done"
           /\ ld.proc = "exited"
           /\ ~ld.scanErr
           /\ ld.exit = 0

\* C17: when the last line readImageLoadedRef read is neither a "Loading
\* layer" record nor a record "Loaded image: <ref>", it returned an error
\* and no reference.
C17_OtherLinesAreErrors ==
    (/\ ReadOver
     /\ ld.pos > 0
     /\ ld.stream.lines[ld.pos] # LoadingLayer
     /\ ld.stream.lines[ld.pos] \notin LoadedRecords)
        => (IsErr(ld.read.err) /\ ld.read.ref = NoRef)

\* C20: cmd.Wait() has been called only if the drain task has returned and
\* the read of the result (Decode, readImageLoadedRef) is over, for the
\* builder and for the producer.
C20_ExitAfterReadAndDrain ==
    /\ bi.waited => (bi.drain \in {"ok", "err"} /\ bi.pc \in {"returned", "panicked"})
    /\ ld.waited => (ld.drain = "done" /\ ReadOver /\ ld.pc = "returned")

\* the producer's exit status was collected and the reference returned
C20_Witness ==
    /\ ld.waited
    /\ ld.drain = "done"
    /\ ld.ret.ref = CanonicalRef

\* C25: whenever buildStreamLayeredImage has returned without an error, the
\* output path it returned is not empty.
C25_SuccessHasOutputPath ==
    (bi.pc = "returned" /\ ~IsErr(bi.ret.err)) => bi.ret.path # ""

-----------------------------------------------------------------------------
(* Properties of the error variable of loadStreamLayeredImage (SpecLoad) *)

\* the messages under which the main flow returns the error of one of its
\* three calls (io.go 112, 118, 125)
MainFlowMessages ==
    {"create docker client failed", "docker image load failed",
     "failed to read loaded ref"}

\* C23: the error of docker client creation, of the daemon load call and of
\* readImageLoadedRef is the one the main flow tests and returns, whatever
\* the drain task does meanwhile: the call never goes on with the nil client
\* or response of a failed call, a failed read of the progress stream is
\* returned as such, no main-flow return carries the drain task's scan error,
\* and the drain task reports a scan failure only when its scan failed.
C23_ErrorNotShared ==
    /\ ld.pc # "panicked"
    /\ (IsErr(ld.read.err) /\ ld.pc # "readTest") =>
           /\ ld.pc = "returned"
           /\ ld.ret = LoadRet(NoRef, Wrap("failed to read loaded ref", ld.read.err))
    /\ ld.pc = "returned" =>
           \A m \in MainFlowMessages : ld.ret.err # Wrap(m, Err("token too long", 0))
    /\ IsErr(ld.gret) => ld.scanErr

-----------------------------------------------------------------------------
(* Properties of the two calls under cancellation (SpecIO) *)

\* C22: while the context of a Build Invoker or Streaming Loader call is done
\* and the subprocess the call started is still running, the subprocess
\* itself is about to be killed: the kill is enabled wherever the call is,
\* also when it has stopped reading the pipes or has returned.
C22_CancelKillsSubprocess ==
    /\ (bi.cancelled /\ bi.proc = "running") => ENABLED BuilderKill
    /\ (ld.cancelled /\ ld.proc = "running") => ENABLED ProducerKill

C22_Witness ==
    /\ ld.cancelled
    /\ ld.proc = "exited"
    /\ ld.exit = Killed
    /\ ld.waited

\* C24: when buildStreamLayeredImage or loadStreamLayeredImage has returned
\* after it started its subprocess, on any return path, the subprocess has
\* been waited for and the drain task has returned.
C24_NothingOutlivesTheCall ==
    /\ (bi.pc = "returned" /\ bi.proc # "none") =>
           (bi.waited /\ DrainReturned(bi.drain))
    /\ (ld.pc = "returned" /\ ld.proc # "none") =>
           (ld.waited /\ DrainReturned(ld.drain))

----------------------------------------------------------------------------
(* Properties of the orchestrator, continued (Spec) *)

\* C21: once a run for several platforms has returned, with or without an
\* error, every platform task has returned, or none was ever launched.
C21_ReturnsAfterAllTasks ==
    (~Single /\ result.done) =>
        \/ \A i \in Tasks : task[i].pc \in {"done", "failed"}
        \/ \A i \in Tasks : task[i].pc = "idle"

\* the run returned an error after one task had failed and another had
\* gone through its push
C21_Witness ==
    /\ ~Single
    /\ result.done
    /\ IsErr(result.err)
    /\ \E a, b \in Tasks : task[a].pc = "failed" /\ task[b].pc = "done"

====
